---------------------------- MODULE Spec2Model ----------------------------
(***************************************************************************)
(* Model of app.py: the Excel duplicate checker.                           *)
(*                                                                         *)
(* A string is a sequence of characters.  A character is written as a      *)
(* one-character TLA+ string when it is ASCII and as "U+XXXX" otherwise.   *)
(* A DataFrame is a record [columns, index, data]: the column names in     *)
(* order, the index labels in row order, and one cell function (column     *)
(* name -> cell) per row.  Cells are strings; the helper column "_idx" of  *)
(* run_check_A holds integers and "_keep" holds booleans, as in pandas.    *)
(***************************************************************************)
EXTENDS Integers, Sequences, FiniteSets, TLC

VARIABLES
    df_input,   \* the uploaded table (read_excel_as_str), empty before upload
    uploaded,   \* whether a file has been uploaded
    ui,         \* the elements the script has put on the page, in order
    resA,       \* what run_check_A returned in the last button run
    resB,       \* what run_check_B returned in the last button run
    resA2       \* run_check_A applied to the cleaned table of resA

vars == <<df_input, uploaded, ui, resA, resB, resA2>>

(***************************************************************************)
(* Bounds of the model.                                                    *)
(***************************************************************************)
MaxRows == 3

(***************************************************************************)
(* Characters and strings (Python str).                                    *)
(***************************************************************************)
\* ord(ch): the code point, which is the order Python compares strings by.
Ord ==
    " " :> 32 @@ "%" :> 37 @@ "(" :> 40 @@ ")" :> 41 @@ "+" :> 43 @@ "," :> 44 @@
    "-" :> 45 @@ "." :> 46 @@ "/" :> 47 @@ "0" :> 48 @@ "1" :> 49 @@ "2" :> 50 @@
    "3" :> 51 @@ "4" :> 52 @@ "5" :> 53 @@ "6" :> 54 @@ "7" :> 55 @@ "8" :> 56 @@
    "9" :> 57 @@ "A" :> 65 @@ "B" :> 66 @@ "C" :> 67 @@ "D" :> 68 @@ "E" :> 69 @@
    "F" :> 70 @@ "G" :> 71 @@ "H" :> 72 @@ "I" :> 73 @@ "J" :> 74 @@ "K" :> 75 @@
    "L" :> 76 @@ "M" :> 77 @@ "N" :> 78 @@ "O" :> 79 @@ "P" :> 80 @@ "Q" :> 81 @@
    "R" :> 82 @@ "S" :> 83 @@ "T" :> 84 @@ "U" :> 85 @@ "V" :> 86 @@ "W" :> 87 @@
    "X" :> 88 @@ "Y" :> 89 @@ "Z" :> 90 @@ "\\" :> 92 @@ "_" :> 95 @@ "a" :> 97 @@
    "b" :> 98 @@ "c" :> 99 @@ "d" :> 100 @@ "e" :> 101 @@ "f" :> 102 @@ "g" :> 103 @@
    "h" :> 104 @@ "i" :> 105 @@ "j" :> 106 @@ "k" :> 107 @@ "l" :> 108 @@ "m" :> 109 @@
    "n" :> 110 @@ "o" :> 111 @@ "p" :> 112 @@ "q" :> 113 @@ "r" :> 114 @@ "s" :> 115 @@
    "t" :> 116 @@ "u" :> 117 @@ "v" :> 118 @@ "w" :> 119 @@ "x" :> 120 @@ "y" :> 121 @@
    "z" :> 122 @@ "U+00C4" :> 196 @@ "U+00D6" :> 214 @@ "U+00DC" :> 220 @@
    "U+00E4" :> 228 @@ "U+00F6" :> 246 @@ "U+00FC" :> 252 @@ "U+0308" :> 776 @@
    "U+2013" :> 8211 @@ "U+2014" :> 8212

\* The characters the model's cells are written in.
Alphabet == DOMAIN Ord

Digits == {"0", "1", "2", "3", "4", "5", "6", "7", "8", "9"}

DigitVal ==
    "0" :> 0 @@ "1" :> 1 @@ "2" :> 2 @@ "3" :> 3 @@ "4" :> 4 @@
    "5" :> 5 @@ "6" :> 6 @@ "7" :> 7 @@ "8" :> 8 @@ "9" :> 9

DigitChar == <<"0", "1", "2", "3", "4", "5", "6", "7", "8", "9">>

\* str.lower() of one character.
LowerTable ==
    "A" :> "a" @@ "B" :> "b" @@ "C" :> "c" @@ "D" :> "d" @@ "E" :> "e" @@ "F" :> "f" @@
    "G" :> "g" @@ "H" :> "h" @@ "I" :> "i" @@ "J" :> "j" @@ "K" :> "k" @@ "L" :> "l" @@
    "M" :> "m" @@ "N" :> "n" @@ "O" :> "o" @@ "P" :> "p" @@ "Q" :> "q" @@ "R" :> "r" @@
    "S" :> "s" @@ "T" :> "t" @@ "U" :> "u" @@ "V" :> "v" @@ "W" :> "w" @@ "X" :> "x" @@
    "Y" :> "y" @@ "Z" :> "z" @@ "U+00C4" :> "U+00E4" @@ "U+00D6" :> "U+00F6" @@
    "U+00DC" :> "U+00FC"

\* unicodedata.normalize("NFKD", ch) of one character of the alphabet.
NFKDTable ==
    "U+00C4" :> <<"A", "U+0308">> @@ "U+00D6" :> <<"O", "U+0308">> @@
    "U+00DC" :> <<"U", "U+0308">> @@ "U+00E4" :> <<"a", "U+0308">> @@
    "U+00F6" :> <<"o", "U+0308">> @@ "U+00FC" :> <<"u", "U+0308">>

\* unicodedata.combining(ch) != 0
IsCombining(ch) == ch = "U+0308"

\* ch.isspace(), which is also the regex class \s
IsSpace(ch) == ch = " "

\* the regex class [a-z0-9]
IsLowerAlnum(ch) == Ord[ch] \in 97..122 \/ Ord[ch] \in 48..57

\* the regex class \w of a str pattern: alphanumerics and the underscore
IsWordChar(ch) ==
    \/ Ord[ch] \in 48..57 \/ Ord[ch] \in 65..90 \/ Ord[ch] \in 97..122
    \/ ch = "_" \/ ch \in DOMAIN NFKDTable

RECURSIVE MapChars(_, _)
\* "".join(f(ch) for ch in s), f given as a table (identity off its domain)
MapChars(table, s) ==
    IF s = <<>> THEN <<>>
    ELSE <<(IF Head(s) \in DOMAIN table THEN table[Head(s)] ELSE Head(s))>>
         \o MapChars(table, Tail(s))

\* s.lower()
Lower(s) == MapChars(LowerTable, s)

RECURSIVE NFKD(_)
\* unicodedata.normalize("NFKD", s)
NFKD(s) ==
    IF s = <<>> THEN <<>>
    ELSE (IF Head(s) \in DOMAIN NFKDTable THEN NFKDTable[Head(s)] ELSE <<Head(s)>>)
         \o NFKD(Tail(s))

RECURSIVE LStrip(_)
LStrip(s) == IF s # <<>> /\ IsSpace(Head(s)) THEN LStrip(Tail(s)) ELSE s

RECURSIVE RStrip(_)
RStrip(s) ==
    IF s # <<>> /\ IsSpace(s[Len(s)]) THEN RStrip(SubSeq(s, 1, Len(s) - 1)) ELSE s

\* s.strip()
Strip(s) == RStrip(LStrip(s))

RECURSIVE ReplaceChar(_, _, _)
\* s.replace(ch, new) for a one-character ch; new is a string
ReplaceChar(s, ch, new) ==
    IF s = <<>> THEN <<>>
    ELSE (IF Head(s) = ch THEN new ELSE <<Head(s)>>) \o ReplaceChar(Tail(s), ch, new)

RECURSIVE StrLess(_, _)
\* a < b for two Python strings: lexicographic by code point
StrLess(a, b) ==
    IF b = <<>> THEN FALSE
    ELSE IF a = <<>> THEN TRUE
    ELSE IF Head(a) = Head(b) THEN StrLess(Tail(a), Tail(b))
    ELSE Ord[Head(a)] < Ord[Head(b)]

\* int(ds) for a string of digits ("" gives 0)
RECURSIVE DigitsToInt(_)
DigitsToInt(ds) ==
    IF ds = <<>> THEN 0
    ELSE 10 * DigitsToInt(SubSeq(ds, 1, Len(ds) - 1)) + DigitVal[ds[Len(ds)]]

RECURSIVE CollapseSpace(_)
\* re.sub(r"\s+", " ", s)
CollapseSpace(s) ==
    IF s = <<>> THEN <<>>
    ELSE IF IsSpace(Head(s)) THEN <<" ">> \o CollapseSpace(LStrip(s))
    ELSE <<Head(s)>> \o CollapseSpace(Tail(s))

(***************************************************************************)
(* DataFrames.                                                             *)
(***************************************************************************)
Range(s) == {s[i] : i \in 1..Len(s)}

\* len(df)
NRows(df) == Len(df.data)

\* the frame with no columns and no rows
EmptyFrame == [columns |-> <<>>, index |-> <<>>, data |-> <<>>]

\* the tuple of a row's cells in the columns cols
RowKey(row, cols) == [k \in 1..Len(cols) |-> row[cols[k]]]

\* mutant: identifiers are compared by their numeric value
CellLess_numeric_id(col, a, b) ==
    IF col = "_idx" THEN a < b
    ELSE IF col = "externalId" /\ Range(a) \cup Range(b) \subseteq Digits
    THEN DigitsToInt(a) < DigitsToInt(b)
    ELSE StrLess(a, b)

\* the order of two cells of one column in sort_values: Python's < on the
\* column's values (the integers of "_idx", the strings of any other)
CellLess(col, a, b) == IF col = "_idx" THEN a < b ELSE StrLess(a, b)

RECURSIVE RowLess(_, _, _)
\* row a sorts strictly before row b by the columns `by`, first column first
RowLess(by, a, b) ==
    IF by = <<>> THEN FALSE
    ELSE IF a[Head(by)] = b[Head(by)] THEN RowLess(Tail(by), a, b)
    ELSE CellLess(Head(by), a[Head(by)], b[Head(by)])

RECURSIVE merge(_, _, _, _)
\* the merge step of a stable merge sort of row positions: on a tie the
\* left run's position comes first
merge(data, by, l, r) ==
    IF l = <<>> THEN r
    ELSE IF r = <<>> THEN l
    ELSE IF RowLess(by, data[Head(r)], data[Head(l)])
         THEN <<Head(r)>> \o merge(data, by, l, Tail(r))
         ELSE <<Head(l)>> \o merge(data, by, Tail(l), r)

RECURSIVE mergesort(_, _, _)
mergesort(data, by, ps) ==
    IF Len(ps) <= 1 THEN ps
    ELSE LET h == Len(ps) \div 2
         IN merge(data, by, mergesort(data, by, SubSeq(ps, 1, h)),
                  mergesort(data, by, SubSeq(ps, h + 1, Len(ps))))

\* df.sort_values(by=by, kind="mergesort"): a stable sort, rows keep their
\* index labels
sort_values(df, by) ==
    LET perm == mergesort(df.data, by, [k \in 1..NRows(df) |-> k])
    IN [columns |-> df.columns,
        index   |-> [k \in 1..NRows(df) |-> df.index[perm[k]]],
        data    |-> [k \in 1..NRows(df) |-> df.data[perm[k]]]]

\* mutant: keep="first" whatever is asked for
duplicated_keep_first(df, subset, keep) ==
    [i \in 1..NRows(df) |->
        \E j \in 1..(i - 1) :
            RowKey(df.data[j], subset) = RowKey(df.data[i], subset)]

\* df.duplicated(subset=subset, keep=keep): keep is "first", "last" or
\* "none" (keep=False)
duplicated(df, subset, keep) ==
    [i \in 1..NRows(df) |->
        \E j \in 1..NRows(df) :
            /\ j # i
            /\ RowKey(df.data[j], subset) = RowKey(df.data[i], subset)
            /\ \/ keep = "none"
               \/ keep = "first" /\ j < i
               \/ keep = "last" /\ j > i]

\* the positions i of 1..n with mask[i], ascending
RECURSIVE Where(_, _)
Where(mask, n) ==
    IF n = 0 THEN <<>>
    ELSE Where(mask, n - 1) \o (IF mask[n] THEN <<n>> ELSE <<>>)

\* df[mask] and df.loc[mask]: the rows whose mask is true, order and index
\* labels kept
select_rows(df, mask) ==
    LET ps == Where(mask, NRows(df))
    IN [columns |-> df.columns,
        index   |-> [k \in 1..Len(ps) |-> df.index[ps[k]]],
        data    |-> [k \in 1..Len(ps) |-> df.data[ps[k]]]]

\* df[cols]: the columns cols only
select_columns(df, cols) ==
    [columns |-> cols,
     index   |-> df.index,
     data    |-> [k \in 1..NRows(df) |-> [c \in Range(cols) |-> df.data[k][c]]]]

\* df.drop(columns=names)
drop_columns(df, names) ==
    select_columns(df, SelectSeq(df.columns, LAMBDA c : c \notin names))

\* df[name] = values: an existing column is overwritten in place, a new one
\* is appended
assign_column(df, name, values) ==
    [columns |-> IF name \in Range(df.columns) THEN df.columns
                 ELSE Append(df.columns, name),
     index   |-> df.index,
     data    |-> [k \in 1..NRows(df) |-> (name :> values[k]) @@ df.data[k]]]

\* df.drop_duplicates(): the first row of each distinct row value
drop_duplicates(df) ==
    select_rows(df, [i \in 1..NRows(df) |-> ~duplicated(df, df.columns, "first")[i]])

\* df.reset_index(drop=True)
reset_index(df) ==
    [columns |-> df.columns,
     index   |-> [k \in 1..NRows(df) |-> k - 1],
     data    |-> df.data]

\* df.copy()
copy(df) == df

(***************************************************************************)
(* Check A: all columns except externalId.                                 *)
(***************************************************************************)
\* what run_check_A returns (error: the column its ValueError names), with
\* kept_index: the index labels of df_sorted[df_sorted["_keep"]] before
\* reset_index, and df_after: the caller's table as the call leaves it
NoResultA ==
    [ran |-> FALSE, error |-> <<>>, dup_mask |-> <<>>, cleaned_df |-> EmptyFrame,
     kept_index |-> <<>>, removed_ids_df |-> EmptyFrame, removed_count |-> 0,
     group_count |-> 0, df_after |-> EmptyFrame]

\* mutant: the core fields are left out of the comparison as well
compare_cols_without_core(df, id_col) ==
    SelectSeq(df.columns, LAMBDA c : c # id_col /\ c \notin {"name", "itemsTaxRate"})

\* compare_cols = [c for c in df.columns if c != id_col]
compare_cols(df, id_col) == SelectSeq(df.columns, LAMBDA c : c # id_col)

\* mutant: the identifier is not a sort key
sort_columns_without_id(cols, id_col) == cols

\* by=[*compare_cols, id_col]
sort_columns(cols, id_col) == Append(cols, id_col)

run_check_A(df, id_col) ==
    IF id_col \notin Range(df.columns)
    THEN [NoResultA EXCEPT !.ran = TRUE, !.error = <<id_col>>, !.df_after = df]
    ELSE
    LET cols      == compare_cols(df, id_col)
        dup_mask  == duplicated(df, cols, "none")
        df_sorted0 == assign_column(copy(df), "_idx",
                                    [k \in 1..NRows(df) |-> k - 1])
        df_sorted1 == sort_values(df_sorted0, sort_columns(cols, id_col))
        keep      == [k \in 1..NRows(df) |->
                        ~duplicated(df_sorted1, cols, "first")[k]]
        df_sorted == assign_column(df_sorted1, "_keep", keep)
        cleaned_df == reset_index(drop_columns(select_rows(df_sorted, keep),
                                               {"_idx", "_keep"}))
        removed_rows_sorted ==
            select_rows(df_sorted, [k \in 1..NRows(df) |-> ~keep[k]])
        removed_ids_df ==
            reset_index(drop_duplicates(select_columns(removed_rows_sorted,
                                                       <<id_col>>)))
        removed_count == NRows(removed_rows_sorted)
        group_count ==
            IF \E i \in 1..NRows(df) : dup_mask[i]
            THEN NRows(drop_duplicates(select_columns(select_rows(df, dup_mask),
                                                      cols)))
            ELSE 0
    IN [ran |-> TRUE, error |-> <<>>, dup_mask |-> dup_mask,
        cleaned_df |-> cleaned_df, kept_index |-> select_rows(df_sorted, keep).index,
        removed_ids_df |-> removed_ids_df,
        removed_count |-> removed_count, group_count |-> group_count,
        df_after |-> df]


(***************************************************************************)
(* Check B: the normalizers.                                               *)
(***************************************************************************)
CORE_FIELDS ==
    <<"taxExemption", "name", "recipientCountry", "category", "vendorCountry",
      "itemsTaxRate">>

\* "services", "service", "fa/ooe", "fa\\ooe", "fa ooe".  Python iterates the
\* set in an order of its own; the removals do not interact (no word is
\* bounded by \b inside another, and "/" and "\" are gone before the loop), so
\* the result is the same in every order and the model takes this one.
_REM_WORDS ==
    << <<"s", "e", "r", "v", "i", "c", "e", "s">>,
       <<"s", "e", "r", "v", "i", "c", "e">>,
       <<"f", "a", "/", "o", "o", "e">>,
       <<"f", "a", "\\", "o", "o", "e">>,
       <<"f", "a", " ", "o", "o", "e">> >>

_to_ascii_lower(s) ==
    Lower(SelectSeq(NFKD(s), LAMBDA ch : ~IsCombining(ch)))

TruthySet ==
    { <<"t", "r", "u", "e">>, <<"1">>, <<"y", "e", "s">>, <<"y">>,
      <<"w", "a", "h", "r">> }

FalsySet ==
    { <<"f", "a", "l", "s", "e">>, <<"0">>, <<"n", "o">>, <<"n">>,
      <<"f", "a", "l", "s", "c", "h">> }

_norm_bool(s) ==
    LET s_l == Lower(Strip(s))
    IN IF s_l \in TruthySet THEN <<"t", "r", "u", "e">>
       ELSE IF s_l \in FalsySet THEN <<"f", "a", "l", "s", "e">>
       ELSE s_l

\* 10 ** k
RECURSIVE Pow10(_)
Pow10(k) == IF k = 0 THEN 1 ELSE 10 * Pow10(k - 1)

\* str(n) for n >= 0
RECURSIVE IntToStr(_)
IntToStr(n) ==
    IF n < 10 THEN <<DigitChar[n + 1]>>
    ELSE Append(IntToStr(n \div 10), DigitChar[(n % 10) + 1])

\* the digits of n, zero-padded on the left to width w
RECURSIVE ZeroPad(_, _)
ZeroPad(n, w) ==
    IF w = 0 THEN <<>> ELSE Append(ZeroPad(n \div 10, w - 1), DigitChar[(n % 10) + 1])

\* float(t).  The value is kept exactly, as sign, mantissa and decimal scale:
\* (-1)^neg * mant / 10^scale; a negative zero keeps its sign, as a float
\* does.  Recognised: optional whitespace around, an optional sign, digits
\* with at most one point and at least one digit.  Exponents, "inf", "nan"
\* and digit-group underscores are not written in the model's rate cells.
ParseFloat(t) ==
    LET u     == Strip(t)
        neg   == u # <<>> /\ Head(u) = "-"
        body  == IF u # <<>> /\ Head(u) \in {"+", "-"} THEN Tail(u) ELSE u
        ds    == SelectSeq(body, LAMBDA ch : ch \in Digits)
        dots  == SelectSeq(body, LAMBDA ch : ch = ".")
        ok    == /\ ds # <<>>
                 /\ Len(dots) <= 1
                 /\ Len(ds) + Len(dots) = Len(body)
        point == IF dots = <<>> THEN Len(body) + 1
                 ELSE CHOOSE i \in 1..Len(body) : body[i] = "."
    IN [ok |-> ok, neg |-> neg,
        mant |-> IF ok THEN DigitsToInt(ds) ELSE 0,
        scale |-> IF ok /\ dots # <<>> THEN Len(body) - point ELSE 0]

\* mutant: val >= 1.0
AtLeastOne(val) == ~val.neg /\ val.mant >= Pow10(val.scale)

\* val > 1.0
GreaterThanOne(val) == ~val.neg /\ val.mant > Pow10(val.scale)

\* val / 100.0
DivideBy100(val) == [val EXCEPT !.scale = @ + 2]

\* f"{val:.6f}".  With at most six decimals nothing is rounded; beyond six
\* the decimal value is rounded half to even (the float's own rounding can
\* differ from it only on a value that sits on a tie).
Format6f(val) ==
    LET micro == IF val.scale <= 6 THEN val.mant * Pow10(6 - val.scale)
                 ELSE LET d == Pow10(val.scale - 6)
                          q == val.mant \div d
                          r == val.mant % d
                      IN IF 2 * r > d \/ (2 * r = d /\ q % 2 = 1) THEN q + 1 ELSE q
    IN (IF val.neg THEN <<"-">> ELSE <<>>)
       \o IntToStr(micro \div 1000000) \o <<".">> \o ZeroPad(micro % 1000000, 6)

\* if val > 1.0: val = val / 100.0
Percentify(val) == IF GreaterThanOne(val) THEN DivideBy100(val) ELSE val

_norm_rate(s) ==
    LET t   == ReplaceChar(ReplaceChar(Strip(s), "%", <<>>), ",", <<".">>)
        val == ParseFloat(t)
    IN IF val.ok THEN Format6f(Percentify(val))
       ELSE Strip(_to_ascii_lower(s))

\* the position of the first ch in s, 0 if there is none
RECURSIVE IndexOf(_, _)
IndexOf(s, ch) ==
    IF s = <<>> THEN 0
    ELSE IF Head(s) = ch THEN 1
    ELSE LET p == IndexOf(Tail(s), ch) IN IF p = 0 THEN 0 ELSE p + 1

\* re.sub(r"\([^)]*\)", " ", s)
RECURSIVE SubParens(_)
SubParens(s) ==
    IF s = <<>> THEN <<>>
    ELSE IF Head(s) = "("
         THEN LET p == IndexOf(Tail(s), ")")
              IN IF p = 0 THEN s
                 ELSE <<" ">> \o SubParens(SubSeq(s, p + 2, Len(s)))
    ELSE <<Head(s)>> \o SubParens(Tail(s))

\* re.sub(r"[^a-z0-9\s\.,]", " ", s)
RECURSIVE SubNonAlnum(_)
SubNonAlnum(s) ==
    IF s = <<>> THEN <<>>
    ELSE <<(IF IsLowerAlnum(Head(s)) \/ IsSpace(Head(s)) \/ Head(s) \in {".", ","}
            THEN Head(s) ELSE " ")>> \o SubNonAlnum(Tail(s))

\* re.sub(rf"\b{re.escape(w)}\b", " ", s), scanning s from the left;
\* prevWord: the character before s (in the whole string) is a word
\* character.  Every w of _REM_WORDS begins and ends with a word character,
\* so \b holds before it iff the character before is none, and after it iff
\* the character after is none.
RECURSIVE SubWord(_, _, _)
SubWord(s, w, prevWord) ==
    IF s = <<>> THEN <<>>
    ELSE IF /\ ~prevWord
            /\ Len(s) >= Len(w)
            /\ SubSeq(s, 1, Len(w)) = w
            /\ (Len(s) = Len(w) \/ ~IsWordChar(s[Len(w) + 1]))
         THEN <<" ">> \o SubWord(SubSeq(s, Len(w) + 1, Len(s)), w, TRUE)
    ELSE <<Head(s)>> \o SubWord(Tail(s), w, IsWordChar(Head(s)))

\* for w in _REM_WORDS: s = re.sub(...)
RECURSIVE RemoveWords(_, _)
RemoveWords(s, ws) ==
    IF ws = <<>> THEN s ELSE RemoveWords(SubWord(s, Head(ws), FALSE), Tail(ws))

_norm_name(s) ==
    LET s1 == _to_ascii_lower(s)
        s2 == SubParens(s1)
        s3 == ReplaceChar(ReplaceChar(ReplaceChar(s2, "U+2013", <<" ">>),
                                      "U+2014", <<" ">>), "-", <<" ">>)
        s4 == SubNonAlnum(s3)
        s5 == RemoveWords(s4, _REM_WORDS)
        s6 == ReplaceChar(s5, ",", <<".">>)
    IN Strip(CollapseSpace(s6))

_norm_text(s) == Strip(CollapseSpace(_to_ascii_lower(s)))

\* missing = [c for c in CORE_FIELDS if c not in df.columns]
missing_core(df) == SelectSeq(CORE_FIELDS, LAMBDA c : c \notin Range(df.columns))

\* the normalized view of the core fields (called only when none is missing)
normalize_core_view(df) ==
    [columns |-> CORE_FIELDS,
     index   |-> df.index,
     data    |-> [k \in 1..NRows(df) |->
                    [taxExemption     |-> _norm_bool(df.data[k]["taxExemption"]),
                     name             |-> _norm_name(df.data[k]["name"]),
                     recipientCountry |-> _norm_text(df.data[k]["recipientCountry"]),
                     category         |-> _norm_text(df.data[k]["category"]),
                     vendorCountry    |-> _norm_text(df.data[k]["vendorCountry"]),
                     itemsTaxRate     |-> _norm_rate(df.data[k]["itemsTaxRate"])]]]

(***************************************************************************)
(* Check B: core fields, normalized.                                       *)
(***************************************************************************)
\* what run_check_B returns (error: the columns its exception names), with
\* its local norm
NoResultB ==
    [ran |-> FALSE, error |-> <<>>, norm |-> EmptyFrame, dup_mask_core |-> <<>>,
     external_ids_in_groups |-> EmptyFrame, duplicates_view |-> EmptyFrame]

\* mutant: no drop_duplicates
unique_ids_keep_all(ids) == ids

\* the list of identifiers: one entry per distinct identifier
unique_ids(ids) == drop_duplicates(ids)

run_check_B(df, id_col) ==
    IF missing_core(df) # <<>>
    THEN [NoResultB EXCEPT !.ran = TRUE, !.error = missing_core(df)]
    ELSE IF id_col \notin Range(df.columns)
    THEN [NoResultB EXCEPT !.ran = TRUE, !.error = <<id_col>>]
    ELSE
    LET norm == normalize_core_view(df)
        dup_mask_core == duplicated(norm, CORE_FIELDS, "none")
        external_ids_in_groups ==
            reset_index(unique_ids(select_columns(select_rows(df, dup_mask_core),
                                                  <<id_col>>)))
        view == assign_column(copy(norm), id_col,
                              [k \in 1..NRows(df) |-> df.data[k][id_col]])
        by == Append(CORE_FIELDS, id_col)
        duplicates_view ==
            sort_values(select_columns(select_rows(view, dup_mask_core), by), by)
    IN [ran |-> TRUE, error |-> <<>>, norm |-> norm, dup_mask_core |-> dup_mask_core,
        external_ids_in_groups |-> external_ids_in_groups,
        duplicates_view |-> duplicates_view]

(***************************************************************************)
(* The tables a user may upload, as read_excel_as_str returns them: every  *)
(* cell a stripped string (none of them a text pandas reads as a missing   *)
(* value, such as "n/a"), a RangeIndex.                                    *)
(***************************************************************************)
\* the columns of a complete file; the one column that is neither the
\* identifier nor a core field is named extra ("code" in the page's text)
StdColumns(extra) == <<"externalId", extra>> \o CORE_FIELDS

\* names a user's file may give the non-core column
ExtraNames == {"code", "_idx", "_keep"}

\* one row over the columns cols
MkRow(cols, id, extra, core) ==
    [c \in Range(cols) |->
        IF c = "externalId" THEN id
        ELSE IF c \in Range(CORE_FIELDS) THEN core[c]
        ELSE extra]

\* the frame of the rows `rows` over the columns cols
MkFrame(cols, rows) ==
    [columns |-> cols, index |-> [k \in 1..Len(rows) |-> k - 1], data |-> rows]

\* all frames over cols with at most MaxRows rows drawn from pool
FramesOver(cols, pool) ==
    {MkFrame(cols, rows) : rows \in UNION {[1..n -> pool] : n \in 0..MaxRows}}

\* core cells: "Yes" / "Cleaning Services" / "DE" / "Tax" / "AT" / "8,1%"
Core1 ==
    [taxExemption     |-> <<"Y", "e", "s">>,
     name             |-> <<"C", "l", "e", "a", "n", "i", "n", "g", " ",
                            "S", "e", "r", "v", "i", "c", "e", "s">>,
     recipientCountry |-> <<"D", "E">>,
     category         |-> <<"T", "a", "x">>,
     vendorCountry    |-> <<"A", "T">>,
     itemsTaxRate     |-> <<"8", ",", "1", "%">>]

\* the same in another spelling: "true" / "cleaning" / "de" / "tax" / "at" / "0.081"
Core2 ==
    [taxExemption     |-> <<"t", "r", "u", "e">>,
     name             |-> <<"c", "l", "e", "a", "n", "i", "n", "g">>,
     recipientCountry |-> <<"d", "e">>,
     category         |-> <<"t", "a", "x">>,
     vendorCountry    |-> <<"a", "t">>,
     itemsTaxRate     |-> <<"0", ".", "0", "8", "1">>]

\* "Nein" / "B<U+00FC>ro <U+2013> Service (alt)" / "DE" / "Tax" / "AT" / "Frei"
\* (neither boolean-like nor a number: both normalizers fall back)
Core3 ==
    [taxExemption     |-> <<"N", "e", "i", "n">>,
     name             |-> <<"B", "U+00FC", "r", "o", " ", "U+2013", " ",
                            "S", "e", "r", "v", "i", "c", "e", " ",
                            "(", "a", "l", "t", ")">>,
     recipientCountry |-> <<"D", "E">>,
     category         |-> <<"T", "a", "x">>,
     vendorCountry    |-> <<"A", "T">>,
     itemsTaxRate     |-> <<"F", "r", "e", "i">>]

\* the same in another spelling: "NEIN" / "buro" / "DE" / "Tax" / "AT" / "frei"
Core4 ==
    [taxExemption     |-> <<"N", "E", "I", "N">>,
     name             |-> <<"b", "u", "r", "o">>,
     recipientCountry |-> <<"D", "E">>,
     category         |-> <<"T", "a", "x">>,
     vendorCountry    |-> <<"A", "T">>,
     itemsTaxRate     |-> <<"f", "r", "e", "i">>]

\* identifiers: "007", "10", "2" and "005", "5"
IdSets ==
    { { <<"0", "0", "7">>, <<"1", "0">>, <<"2">> },
      { <<"0", "0", "5">>, <<"5">> } }

ExtraValues == { <<"A">>, <<"B">> }

\* complete files whose rows differ in the identifier and the non-core cell
TablesA ==
    UNION { FramesOver(StdColumns(x),
                       {MkRow(StdColumns(x), id, e, Core1) :
                            id \in ids, e \in ExtraValues})
            : x \in ExtraNames, ids \in IdSets }

\* complete files whose rows differ in the spelling of the core cells
TablesB ==
    FramesOver(StdColumns("code"),
               {MkRow(StdColumns("code"), id, <<"A">>, core) :
                    id \in { <<"1">>, <<"2">> },
                    core \in {Core1, Core2, Core3, Core4}})

\* rate cells: [-] int [sep frac] [%]
RateParts ==
    [neg  : BOOLEAN,
     int  : { <<"0">>, <<"1">>, <<"8">>, <<"2", "5", "0">> },
     sep  : { <<>>, <<",">>, <<".">> },
     frac : { <<"1">>, <<"5">> },
     pct  : BOOLEAN]

\* the rate cell written from its parts
RateString(p) ==
    (IF p.neg THEN <<"-">> ELSE <<>>) \o p.int
    \o (IF p.sep = <<>> THEN <<>> ELSE p.sep \o p.frac)
    \o (IF p.pct THEN <<"%">> ELSE <<>>)

RatePool == {RateString(p) : p \in RateParts}

\* rates written as fractions: "0.081", "0.005", "2.5", "0.01", "-0.081", "0"
FractionPool ==
    { <<"0", ".", "0", "8", "1">>, <<"0", ".", "0", "0", "5">>, <<"2", ".", "5">>,
      <<"0", ".", "0", "1">>, <<"-", "0", ".", "0", "8", "1">>, <<"0">> }

\* complete two-row files whose rows differ in the identifier and the rate
TablesR ==
    { MkFrame(StdColumns("code"),
              << MkRow(StdColumns("code"), <<"1">>, <<"A">>,
                       [Core1 EXCEPT !.itemsTaxRate = r1]),
                 MkRow(StdColumns("code"), <<"2">>, <<"A">>,
                       [Core1 EXCEPT !.itemsTaxRate = r2]) >>)
      : r1 \in RatePool, r2 \in FractionPool }

\* files that lack the identifier column, core columns, or both
TablesS ==
    UNION { FramesOver(SelectSeq(StdColumns("code"), LAMBDA c : c \notin gone),
                       {MkRow(SelectSeq(StdColumns("code"), LAMBDA c : c \notin gone),
                              <<"1">>, <<"A">>, core) : core \in {Core1, Core2}})
            : gone \in (SUBSET {"externalId", "name", "itemsTaxRate"}) \ {{}} }

Tables == TablesA \cup TablesB \cup TablesR \cup TablesS

(***************************************************************************)
(* The page (the script below "UI").                                       *)
(***************************************************************************)
\* one element put on the page; cols: the columns an error message names
Element(kind) == [kind |-> kind, cols |-> <<>>]

ErrorElement(cols) == [kind |-> "error", cols |-> cols]

\* st.subheader("Vorschau"); st.dataframe(df_input.head(50))
Preview == <<Element("preview")>>

\* the elements the button's branch puts on the page, given what the two
\* checks return; an exception of a check ends the branch with st.error
ButtonElements(a, b) ==
    <<Element("header_A")>> \o
    IF a.error # <<>> THEN <<ErrorElement(a.error)>>
    ELSE
        <<Element("success_A")>>
        \o (IF \E i \in 1..Len(a.dup_mask) : a.dup_mask[i]
            THEN <<Element("highlight_A")>> ELSE <<Element("info_A")>>)
        \o <<Element("cleaned_table"), Element("download_cleaned"),
             Element("download_removed"), Element("header_B")>>
        \o (IF b.error # <<>> THEN <<ErrorElement(b.error)>>
            ELSE IF \E i \in 1..Len(b.dup_mask_core) : b.dup_mask_core[i]
            THEN <<Element("success_B"), Element("duplicates_view_B"),
                   Element("download_ids_B")>>
            ELSE <<Element("info_B")>>)

Init ==
    /\ df_input = EmptyFrame
    /\ uploaded = FALSE
    /\ ui = <<>>
    /\ resA = NoResultA
    /\ resB = NoResultB
    /\ resA2 = NoResultA

\* the user uploads a file: the script runs down to the preview
Upload ==
    /\ ~uploaded
    /\ \E df \in Tables : df_input' = df
    /\ uploaded' = TRUE
    /\ ui' = Preview
    /\ UNCHANGED <<resA, resB, resA2>>

\* the user presses "Pruefungen ausfuehren": the script runs again, check A
\* and then check B; check B is not reached when check A raises
ButtonClick ==
    /\ uploaded
    /\ LET a == run_check_A(df_input, "externalId")
           b == IF a.error # <<>> THEN NoResultB
                ELSE run_check_B(a.df_after, "externalId")
       IN /\ resA' = a
          /\ resB' = b
          /\ ui' = Preview \o ButtonElements(a, b)
          /\ df_input' = a.df_after
    /\ resA2' = NoResultA
    /\ UNCHANGED uploaded

\* run_check_A on the cleaned table a run of run_check_A returned
RunAgainOnCleaned ==
    /\ resA.ran /\ resA.error = <<>>
    /\ ~resA2.ran
    /\ resA2' = run_check_A(resA.cleaned_df, "externalId")
    /\ UNCHANGED <<df_input, uploaded, ui, resA, resB>>

\* the user removes the file: the script shows only the upload hint
RemoveFile ==
    /\ uploaded
    /\ df_input' = EmptyFrame
    /\ uploaded' = FALSE
    /\ ui' = <<>>
    /\ resA' = NoResultA
    /\ resB' = NoResultB
    /\ resA2' = NoResultA

Next == Upload \/ ButtonClick \/ RunAgainOnCleaned \/ RemoveFile

Spec == Init /\ [][Next]_vars

(***************************************************************************)
(* Vocabulary of the properties.                                           *)
(***************************************************************************)
\* the button's run got through check A / through check B
DoneA == resA.ran /\ resA.error = <<>>
DoneB == resB.ran /\ resB.error = <<>>

Rows(df) == 1..NRows(df)

IdOf(df, k) == df.data[k]["externalId"]

\* the Rule-A key of row k: every column but the identifier, in table order
KeyA(df, k) ==
    RowKey(df.data[k], SelectSeq(df.columns, LAMBDA c : c # "externalId"))

\* the rows of df in the Rule-A group of row k
GroupA(df, k) == {j \in Rows(df) : KeyA(df, j) = KeyA(df, k)}

\* the Rule-B key of row k of the input: its normalized core cells
KeyB(k) == resB.norm.data[k]

GroupB(k) == {j \in Rows(df_input) : KeyB(j) = KeyB(k)}

\* row c of the cleaned table is row k of the input, as far as the cleaned
\* table's columns go
IsRow(cleaned, c, df, k) ==
    \A col \in Range(cleaned.columns) :
        col \in Range(df.columns) /\ cleaned.data[c][col] = df.data[k][col]

\* row k of the input is one of the rows the cleaned table was made of, and
\* is in it with its identifier
Survives(k) ==
    \E c \in Rows(resA.cleaned_df) :
        /\ resA.kept_index[c] = df_input.index[k]
        /\ IsRow(resA.cleaned_df, c, df_input, k)

\* the rows of the input that are not flagged by mask, counted
Flagged(mask) == {i \in DOMAIN mask : mask[i]}

\* the number an identifier parses as (the identifiers of the model's tables
\* are digit strings)
IdNumber(id) == DigitsToInt(id)

\* a <= b as strings
StrLeq(a, b) == a = b \/ StrLess(a, b)

Id007 == <<"0", "0", "7">>
Id005 == <<"0", "0", "5">>
Id5 == <<"5">>

RECURSIVE SumSizes(_)
\* the sum of the sizes of the groups gs
SumSizes(gs) ==
    IF gs = {} THEN 0
    ELSE LET g == CHOOSE x \in gs : TRUE IN Cardinality(g) + SumSizes(gs \ {g})

(***************************************************************************)
(* C1.  Which row of a Rule-A group survives.                              *)
(***************************************************************************)
\* C1 as stated: in every Rule-A group the row kept in the cleaned table is
\* one whose identifier has the smallest numeric value ({"007","10","2"}
\* keeps "2").
C1_NumericSmallestSurvives ==
    DoneA =>
        \A k \in Rows(df_input) :
            \E m \in GroupA(df_input, k) :
                /\ \A j \in GroupA(df_input, k) :
                      IdNumber(IdOf(df_input, m)) <= IdNumber(IdOf(df_input, j))
                /\ Survives(m)

\* C1 amended: identifiers are compared as strings, code point by code point,
\* never as numbers: in every Rule-A group the row whose identifier is
\* smallest in string order (the first such row of the input) is kept in the
\* cleaned table, and no row is removed in favour of a row of its group with
\* a greater identifier string ({"007","10","2"} keeps "007").
C1_StringSmallestSurvives ==
    DoneA =>
        \A k \in Rows(df_input) :
            /\ (\A j \in GroupA(df_input, k) :
                    \/ StrLess(IdOf(df_input, k), IdOf(df_input, j))
                    \/ IdOf(df_input, k) = IdOf(df_input, j) /\ k <= j)
               => Survives(k)
            /\ Survives(k) =>
                  \A j \in GroupA(df_input, k) :
                      ~Survives(j) => StrLeq(IdOf(df_input, k), IdOf(df_input, j))

\* C1 witness: the group {"10","007","2"} (in an order in which "007" is not
\* first) was reduced to the single row "007".
C1_Witness ==
    /\ DoneA
    /\ NRows(df_input) = 3
    /\ GroupA(df_input, 1) = {1, 2, 3}
    /\ {IdOf(df_input, k) : k \in 1..3} = {Id007, <<"1", "0">>, <<"2">>}
    /\ IdOf(df_input, 1) # Id007
    /\ NRows(resA.cleaned_df) = 1
    /\ IdOf(resA.cleaned_df, 1) = Id007

(***************************************************************************)
(* C2.  One row per Rule-A key.                                            *)
(***************************************************************************)
\* C2: the cleaned table holds exactly one row per distinct Rule-A key of the
\* input (exactly one row of every group survives, so every row with a unique
\* key is kept), and removed_count is the input's row count minus the cleaned
\* table's.
C2_OneRowPerKey ==
    DoneA =>
        /\ NRows(resA.cleaned_df)
              = Cardinality({KeyA(df_input, k) : k \in Rows(df_input)})
        /\ \A k \in Rows(df_input) :
              Cardinality({j \in GroupA(df_input, k) : Survives(j)}) = 1
        /\ resA.removed_count = NRows(df_input) - NRows(resA.cleaned_df)

(***************************************************************************)
(* C3.  Idempotence of Rule A.                                             *)
(***************************************************************************)
\* C3: run_check_A on the cleaned table of a run of run_check_A flags no row,
\* reports group_count 0 and removed_count 0, and returns no removed
\* identifier.
C3_Idempotent ==
    resA2.ran =>
        /\ resA2.error = <<>>
        /\ Flagged(resA2.dup_mask) = {}
        /\ resA2.group_count = 0
        /\ resA2.removed_count = 0
        /\ NRows(resA2.removed_ids_df) = 0

(***************************************************************************)
(* C4.  Fail fast on schema errors.                                        *)
(***************************************************************************)
\* the required columns the uploaded table lacks
MissingColumns ==
    {c \in {"externalId"} \cup Range(CORE_FIELDS) : c \notin Range(df_input.columns)}

OutputKinds ==
    {"success_A", "cleaned_table", "download_cleaned", "download_removed",
     "success_B", "duplicates_view_B", "download_ids_B"}

\* C4: when the uploaded table lacks the identifier column or a core column,
\* a run of the button's handler ends with an error naming missing columns
\* and has put no output on the page before it: no success message, no
\* cleaned table, no download, no Rule-B list.
C4_FailFast ==
    (resA.ran /\ MissingColumns # {}) =>
        /\ ui[Len(ui)].kind = "error"
        /\ ui[Len(ui)].cols # <<>>
        /\ Range(ui[Len(ui)].cols) \subseteq MissingColumns
        /\ \A n \in 1..Len(ui) : ui[n].kind \notin OutputKinds

(***************************************************************************)
(* C5.  Identifiers that are equal as numbers: "005" and "5".              *)
(***************************************************************************)
\* the scenario: three rows, two of them one Rule-A group carrying "005" and
\* "5" (rows a and b, a before b), the third a group of its own
C5_Scenario(a, b) ==
    /\ DoneA
    /\ NRows(df_input) = 3
    /\ a < b
    /\ GroupA(df_input, a) = {a, b}
    /\ {IdOf(df_input, a), IdOf(df_input, b)} = {Id005, Id5}

GroupsB == {GroupB(k) : k \in {i \in Rows(df_input) : Cardinality(GroupB(i)) >= 2}}

FlaggedB == Flagged(resB.dup_mask_core)

\* C6 as stated: the flagged rows number the sum of the sizes of the Rule-B
\* groups of size >= 2, and the duplicates view and the identifier list each
\* have exactly one entry per flagged row.
C6_OneEntryPerFlaggedRow ==
    DoneB =>
        /\ Cardinality(FlaggedB) = SumSizes(GroupsB)
        /\ NRows(resB.duplicates_view) = Cardinality(FlaggedB)
        /\ NRows(resB.external_ids_in_groups) = Cardinality(FlaggedB)

\* C6 amended: the flagged rows number the sum of the sizes of the Rule-B
\* groups of size >= 2; the duplicates view has exactly one entry per flagged
\* row (its index labels are those of the flagged rows, each once, with the
\* row's identifier); the identifier list holds the identifier of every
\* flagged row, each distinct identifier exactly once: flagged rows that
\* share an identifier share one entry.
C6_NoFlaggedRowDropped ==
    DoneB =>
        /\ Cardinality(FlaggedB) = SumSizes(GroupsB)
        /\ NRows(resB.duplicates_view) = Cardinality(FlaggedB)
        /\ \A k \in FlaggedB :
              \E v \in Rows(resB.duplicates_view) :
                  /\ resB.duplicates_view.index[v] = df_input.index[k]
                  /\ IdOf(resB.duplicates_view, v) = IdOf(df_input, k)
                  /\ \A c \in Range(CORE_FIELDS) :
                        resB.duplicates_view.data[v][c] = KeyB(k)[c]
        /\ {IdOf(resB.external_ids_in_groups, e) :
                e \in Rows(resB.external_ids_in_groups)}
              = {IdOf(df_input, k) : k \in FlaggedB}
        /\ NRows(resB.external_ids_in_groups)
              = Cardinality({IdOf(df_input, k) : k \in FlaggedB})

\* C6 witness: two flagged rows carry the same identifier; the view has both,
\* the identifier list has the identifier once.
C6_Witness ==
    /\ DoneB
    /\ \E i, j \in FlaggedB : i # j /\ IdOf(df_input, i) = IdOf(df_input, j)
    /\ Cardinality(FlaggedB) = 3
    /\ NRows(resB.duplicates_view) = 3
    /\ NRows(resB.external_ids_in_groups) = 2

(***************************************************************************)
(* C7.  The duplicate flags and the group count.                           *)
(***************************************************************************)
\* the rows that have an equal key at another row
ShouldFlag(keys) == {i \in DOMAIN keys : \E j \in DOMAIN keys : j # i /\ keys[j] = keys[i]}

KeysA == [k \in Rows(df_input) |-> KeyA(df_input, k)]

KeysB == [k \in Rows(df_input) |-> KeyB(k)]

\* C7: under both rules a row is flagged iff another row of the table has an
\* equal key; group_count is the number of distinct Rule-A keys that occur at
\* least twice, 0 for an empty table or one without duplicates, and that is a
\* normal result: no error and the cleaned table on the page.
C7_FlagsAndGroupCount ==
    /\ DoneA =>
          /\ DOMAIN resA.dup_mask = Rows(df_input)
          /\ Flagged(resA.dup_mask) = ShouldFlag(KeysA)
          /\ resA.group_count
                = Cardinality({KeysA[i] : i \in ShouldFlag(KeysA)})
          /\ (ShouldFlag(KeysA) = {} =>
                /\ resA.group_count = 0
                /\ \E n \in 1..Len(ui) : ui[n].kind = "cleaned_table"
                /\ (DoneB => ui[Len(ui)].kind # "error"))
    /\ DoneB =>
          /\ DOMAIN resB.dup_mask_core = Rows(df_input)
          /\ FlaggedB = ShouldFlag(KeysB)

\* C7 witness: a table of three rows, two of them one Rule-A group; the third
\* is flagged under Rule B only.
C7_Witness ==
    /\ DoneA /\ DoneB
    /\ NRows(df_input) = 3
    /\ Cardinality(Flagged(resA.dup_mask)) = 2
    /\ resA.group_count = 1
    /\ Cardinality(FlaggedB) = 3

(***************************************************************************)
(* C8.  Selection only.                                                    *)
(***************************************************************************)
\* C8: every row of the cleaned table equals a row of the input in every
\* column, the cleaned table has exactly the input's columns, and the call
\* leaves the input table as it was.
C8_SelectionOnly ==
    [][ButtonClick =>
          /\ df_input' = df_input
          /\ (resA'.error = <<>> =>
                /\ resA'.cleaned_df.columns = df_input.columns
                /\ \A c \in Rows(resA'.cleaned_df) :
                      \E k \in Rows(df_input) :
                          resA'.cleaned_df.data[c] = df_input.data[k])]_vars

(***************************************************************************)
(* C9.  Rate normalization.                                                *)
(***************************************************************************)
\* the value of a rate cell written from the parts p, in millionths
\* (without its sign)
RateMicro(p) ==
    DigitsToInt(p.int) * 1000000
    + (IF p.sep = <<>> THEN 0 ELSE DigitsToInt(p.frac) * 100000)

\* a sign and a number of millionths, as a fixed-point string of 6 decimals
Fixed6(neg, micro) ==
    (IF neg THEN <<"-">> ELSE <<>>)
    \o IntToStr(micro \div 1000000) \o <<".">> \o ZeroPad(micro % 1000000, 6)

RateOf(k) == df_input.data[k]["itemsTaxRate"]

\* row k's rate cell is the percent form of the value whose fractional form
\* is row j's rate cell: the parts p with a percent sign, and a plain decimal
\* of one hundredth of the value and the same sign
PercentAndFraction(k, j, p) ==
    /\ p.pct
    /\ RateOf(k) = RateString(p)
    /\ RateOf(j) \in FractionPool
    /\ ParseFloat(RateOf(j)).neg = p.neg
    /\ ParseFloat(RateOf(j)).mant * Pow10(8 - ParseFloat(RateOf(j)).scale)
          = RateMicro(p)

\* C9 as stated: a parsed rate whose magnitude exceeds 1.0 is divided by 100
\* and any other is left as is, so a percent-form rate and its fractional
\* form get the same canonical value and the two rows are one Rule-B group.
C9_MagnitudeRule ==
    DoneB =>
        \A k \in Rows(df_input) : \A p \in RateParts :
            RateOf(k) = RateString(p) =>
                /\ KeyB(k).itemsTaxRate
                      = Fixed6(p.neg, IF RateMicro(p) > 1000000
                                      THEN RateMicro(p) \div 100 ELSE RateMicro(p))
                /\ \A j \in Rows(df_input) :
                      PercentAndFraction(k, j, p) =>
                          /\ KeyB(k).itemsTaxRate = KeyB(j).itemsTaxRate
                          /\ {k, j} \subseteq FlaggedB

\* C9 amended: a parsed rate greater than 1.0 (the signed value, not its
\* magnitude) is divided by 100 and any other, every negative one included,
\* is left as is.  A percent-form rate of p percent and its fractional form
\* get the same canonical value exactly when p is not negative and either
\* 1 < p <= 100 or p = 0 ("8,1%" and "0.081" both give "0.081000"), and then
\* two rows differing only in that way are one Rule-B group.
C9_SignedRule ==
    DoneB =>
        \A k \in Rows(df_input) : \A p \in RateParts :
            RateOf(k) = RateString(p) =>
                /\ KeyB(k).itemsTaxRate
                      = Fixed6(p.neg, IF ~p.neg /\ RateMicro(p) > 1000000
                                      THEN RateMicro(p) \div 100 ELSE RateMicro(p))
                /\ \A j \in Rows(df_input) :
                      PercentAndFraction(k, j, p) =>
                          /\ (KeyB(k).itemsTaxRate = KeyB(j).itemsTaxRate)
                                <=> (/\ ~p.neg
                                     /\ \/ RateMicro(p) = 0
                                        \/ /\ RateMicro(p) > 1000000
                                           /\ RateMicro(p) <= 100000000)
                          /\ (KeyB(k).itemsTaxRate = KeyB(j).itemsTaxRate
                                /\ \A c \in Range(df_input.columns) \ {"externalId", "itemsTaxRate"} :
                                      df_input.data[k][c] = df_input.data[j][c])
                                => {k, j} \subseteq FlaggedB

\* C9 witness: two rows that differ only in the rate, "8,1%" and "0.081", are
\* both normalized to "0.081000" and both flagged.
C9_Witness ==
    /\ DoneB
    /\ NRows(df_input) = 2
    /\ RateOf(1) = <<"8", ",", "1", "%">>
    /\ RateOf(2) = <<"0", ".", "0", "8", "1">>
    /\ KeyB(1).itemsTaxRate = <<"0", ".", "0", "8", "1", "0", "0", "0">>
    /\ KeyB(2).itemsTaxRate = <<"0", ".", "0", "8", "1", "0", "0", "0">>
    /\ FlaggedB = {1, 2}

(***************************************************************************)
(* C10.  Rule B is coarser than Rule A.                                    *)
(***************************************************************************)
\* C10: on a table with all required columns, every row flagged by
\* run_check_A is flagged by run_check_B, and two rows that run_check_A
\* compares equal have equal Rule-B keys.
C10_BCoarserThanA ==
    (DoneA /\ DoneB) =>
        /\ Flagged(resA.dup_mask) \subseteq FlaggedB
        /\ \A i, j \in Rows(df_input) :
              RowKey(df_input.data[i], compare_cols(df_input, "externalId"))
                 = RowKey(df_input.data[j], compare_cols(df_input, "externalId"))
              => KeyB(i) = KeyB(j)

\* C10 witness: a row flagged under both rules beside a row flagged under
\* Rule B only.
C10_Witness ==
    /\ DoneA /\ DoneB
    /\ Flagged(resA.dup_mask) # {}
    /\ Flagged(resA.dup_mask) \subseteq FlaggedB
    /\ FlaggedB \ Flagged(resA.dup_mask) # {}

=============================================================================
